---- MODULE Spec2Model ----
(***************************************************************************)
(* Query pipeline of project-samarth:                                      *)
(*   Enhanced2025RAGEngine.parse_2025_query                                *)
(*   EnhancedVectorStore.similarity_search_with_government_context         *)
(*   Enhanced2025RAGEngine.retrieve_relevant_data                          *)
(*   Enhanced2025RAGEngine.generate_2025_enhanced_answer                   *)
(*   Enhanced2025RAGEngine._extract_enhanced_citations                     *)
(*   Enhanced2025RAGEngine._extract_policy_context                         *)
(* and the index behind it:                                                *)
(*   EnhancedVectorStore.create_optimized_index, add_documents,            *)
(*   save_optimized_index, load_local, get_stats                           *)
(* and the service around both (main.py):                                  *)
(*   startup_event, query_system, health_check                             *)
(*                                                                         *)
(* Text is a sequence of one-character strings, so that str.lower(), the   *)
(* `in` substring test and int() are computed character by character.      *)
(* A metadata dict is a function whose DOMAIN is the set of keys present.  *)
(* Scores and weights are exact rationals [n, d] in lowest terms.          *)
(***************************************************************************)
EXTENDS Integers, Sequences, FiniteSets, TLC

VARIABLES
    question,         \* request.question, as the list of [Source N] matches its text holds
    text,             \* request.question, as the characters parse_2025_query reads
    embedding,        \* the embedding backend and the index: "ok", or "down" when a search raises
    hits,             \* every indexed document with its raw distance to the question, nearest first
    intent,           \* the dict parse_2025_query returned for the question
    k,                \* max_results of the request
    llm,              \* self.llm / self.use_local_llm: "none", "local" or "remote"
    reply,            \* what the generation backend does when it is called
    pc,               \* position of the request in query_system
    weighted_results, \* similarity_search_with_government_context: all weighted candidates, sorted
    results,          \* similarity_search_with_government_context: its return value
    filtered_results, \* retrieve_relevant_data: all kept candidates, sorted
    context,          \* retrieve_relevant_data: its return value
    answer,           \* result['answer'], as the list of [Source N] matches of the text
    citations,        \* result['citations']
    policy_context,   \* result['policy_context']
    failed,           \* generate_2025_enhanced_answer went through its except branch
    template,         \* which text result['answer'] is: "generated", "sources", "insufficient", "apology"
    embeddings,       \* vector_store.embeddings.model_name
    vectorstore,      \* vector_store.vectorstore: None or the FAISS object
    disk,             \* the directory the index is saved to and loaded from
    last,             \* the latest call on the vector store and how it ended
    app,              \* main.py: which of the globals vector_store and rag_engine are set
    http,             \* the latest HTTP response of the service
    observed          \* what a search running beside an index update read of the FAISS object

\* the vector store and its directory
store == <<embeddings, vectorstore, disk, last>>

\* a request and everything computed for it
request == <<question, text, embedding, hits, intent, k, llm, reply, pc, weighted_results,
             results, filtered_results, context, answer, citations, policy_context, failed,
             template>>

\* the service around the engine, and a reader beside a writer
server == <<app, http, observed>>

vars == <<request, store, server>>

(***************************************************************************)
(* Bounds of the model.                                                    *)
(***************************************************************************)
MaxDocs == 3     \* documents in the index
MaxRaw == 1      \* largest raw distance the index reports
MaxK == 2        \* largest max_results
MaxVectors == 2  \* vectors an index grows to

(***************************************************************************)
(* Text.                                                                   *)
(***************************************************************************)
UpperChars == <<"A","B","C","D","E","F","G","H","I","J","K","L","M",
                "N","O","P","Q","R","S","T","U","V","W","X","Y","Z">>
LowerChars == <<"a","b","c","d","e","f","g","h","i","j","k","l","m",
                "n","o","p","q","r","s","t","u","v","w","x","y","z">>

\* the lower-case letter of every upper-case letter
ToLower ==
    [c \in {UpperChars[i] : i \in 1..26} |->
        LowerChars[CHOOSE i \in 1..26 : UpperChars[i] = c]]

LowerChar(c) == IF c \in DOMAIN ToLower THEN ToLower[c] ELSE c

\* str.lower()
Lower(s) == [i \in 1..Len(s) |-> LowerChar(s[i])]

\* sub in s, for two strings
Contains(sub, s) ==
    \E i \in 0..(Len(s) - Len(sub)) : SubSeq(s, i + 1, i + Len(sub)) = sub

\* x in list
InList(x, list) == \E i \in 1..Len(list) : list[i] = x

DigitChars == <<"0","1","2","3","4","5","6","7","8","9">>

DigitVal(c) == (CHOOSE i \in 1..10 : DigitChars[i] = c) - 1

\* int(match) for a match of \d+
RECURSIVE ParseInt(_)
ParseInt(s) ==
    IF Len(s) = 0 THEN 0
    ELSE 10 * ParseInt(SubSeq(s, 1, Len(s) - 1)) + DigitVal(s[Len(s)])

\* str(n) of the f-string "[Source {i+1}]", n >= 0
RECURSIVE IntToStr(_)
IntToStr(n) ==
    IF n < 10 THEN <<DigitChars[n + 1]>>
    ELSE IntToStr(n \div 10) \o <<DigitChars[(n % 10) + 1]>>

Min(a, b) == IF a < b THEN a ELSE b

\* Python's None
None == <<>>

(***************************************************************************)
(* Exact arithmetic on non-negative rationals.                             *)
(***************************************************************************)
RECURSIVE GCD(_, _)
GCD(a, b) == IF b = 0 THEN a ELSE GCD(b, a % b)

Rat(n, d) == LET g == GCD(n, d) IN [n |-> n \div g, d |-> d \div g]

RMul(a, b) == Rat(a.n * b.n, a.d * b.d)

RDiv(a, b) == Rat(a.n * b.d, a.d * b.n)

\* a/b < c/d by continued-fraction comparison (no cross products)
RECURSIVE FracLess(_, _, _, _)
FracLess(a, b, c, d) ==
    LET qa == a \div b
        qc == c \div d
        ra == a % b
        rc == c % d
    IN  IF qa # qc THEN qa < qc
        ELSE IF rc = 0 THEN FALSE
        ELSE IF ra = 0 THEN TRUE
        ELSE FracLess(d, rc, b, ra)

RLess(a, b) == FracLess(a.n, a.d, b.n, b.d)

RLeq(a, b) == ~RLess(b, a)

One == Rat(1, 1)

RAdd(a, b) == Rat(a.n * b.d + b.n * a.d, a.d * b.d)

\* a - b for b <= a
RSub(a, b) == Rat(a.n * b.d - b.n * a.d, a.d * b.d)

(***************************************************************************)
(* Metadata dicts.                                                         *)
(***************************************************************************)
\* metadata.get(key, default)
Get(md, key, default) == IF key \in DOMAIN md THEN md[key] ELSE default

GOV == "government_policy"

Whitelist == {"data.gov.in", "imd", "ministry_agriculture"}

sAgriculture == <<"a","g","r","i","c","u","l","t","u","r","e">>
sCrop == <<"c","r","o","p">>

(***************************************************************************)
(* similarity_search_with_government_context: the weight of one document.  *)
(***************************************************************************)
\* variant: the recency factor divides the weight
BoostRecent_Divides(md, w) ==
    IF Get(md, "year", 0) >= 2024 THEN RDiv(w, Rat(12, 10)) ELSE w

\* variant: only years after 2024 count as recent
BoostRecent_After2024(md, w) ==
    IF Get(md, "year", 0) > 2024 THEN RMul(w, Rat(12, 10)) ELSE w

\* year is an int whenever present, so the isinstance test is the `in DOMAIN`
BoostRecent(md, w) ==
    IF Get(md, "year", 0) >= 2024 THEN RMul(w, Rat(12, 10)) ELSE w

BoostGovSource(md, w) ==
    IF Get(md, "source", "") = GOV THEN RMul(w, Rat(115, 100)) ELSE w

BoostCategory(md, w) ==
    LET category == Lower(Get(md, "category", <<>>))
    IN  IF Contains(sAgriculture, category) \/ Contains(sCrop, category)
        THEN RMul(w, Rat(11, 10)) ELSE w

BoostScheme(md, w) ==
    IF Get(md, "scheme", "") # "" THEN RMul(w, Rat(11, 10)) ELSE w

\* variant: 1.5 for 1.05
BoostWhitelist_Typo(md, w) ==
    IF Get(md, "source", "") \in Whitelist THEN RMul(w, Rat(15, 10)) ELSE w

BoostWhitelist(md, w) ==
    IF Get(md, "source", "") \in Whitelist THEN RMul(w, Rat(105, 100)) ELSE w

SearchWeight(md) ==
    BoostWhitelist(md, BoostScheme(md, BoostCategory(md,
        BoostGovSource(md, BoostRecent(md, One)))))

(***************************************************************************)
(* list.sort(key=score): stable, ascending.                                *)
(***************************************************************************)
\* variant: descending order (reverse=True)
InsertByScore_Descending(x, s) ==
    LET j == Cardinality({i \in 1..Len(s) : RLeq(x.score, s[i].score)})
    IN  SubSeq(s, 1, j) \o <<x>> \o SubSeq(s, j + 1, Len(s))

\* x goes after every element whose score is <= its own
InsertByScore(x, s) ==
    LET j == Cardinality({i \in 1..Len(s) : RLeq(s[i].score, x.score)})
    IN  SubSeq(s, 1, j) \o <<x>> \o SubSeq(s, j + 1, Len(s))

RECURSIVE SortByScore(_)
SortByScore(s) ==
    IF Len(s) = 0 THEN <<>>
    ELSE InsertByScore(s[Len(s)], SortByScore(SubSeq(s, 1, Len(s) - 1)))

\* list[:n]
Take(s, n) == SubSeq(s, 1, Min(n, Len(s)))
(***************************************************************************)
(* similarity_search_with_government_context(query, k).                    *)
(* A candidate is the tuple (doc, adjusted_score, weight); raw and pos     *)
(* record the distance and the rank the index gave the document, they are  *)
(* carried along for the properties and are never read by an operation.    *)
(***************************************************************************)
\* self.vectorstore.similarity_search_with_score(query, k=k*3)
IndexSearch(n) == Take(hits, n)

WeightedCandidate(hit, pos) ==
    LET weight == SearchWeight(hit.doc.metadata)
    IN  [doc |-> hit.doc,
         score |-> RDiv(Rat(hit.raw, 1), weight),
         weight |-> weight,
         raw |-> hit.raw,
         pos |-> pos]

WeightedResults(pool) ==
    SortByScore([i \in 1..Len(pool) |-> WeightedCandidate(pool[i], i)])

Search ==
    /\ pc = "start"
    /\ embedding = "ok"
    /\ LET sorted == IF vectorstore = None THEN <<>>
                     ELSE WeightedResults(IndexSearch((k * 2) * 3))
       IN  /\ weighted_results' = sorted
           /\ results' = Take(sorted, k * 2)
    /\ pc' = "searched"
    /\ UNCHANGED <<server, store, question, text, embedding, hits, intent, k, llm, reply, filtered_results,
                   context, answer, citations, policy_context, failed, template>>

\* variant: a failed search discards the index
SearchFail_DropsIndex ==
    /\ pc = "start"
    /\ embedding = "down"
    /\ weighted_results' = <<>>
    /\ results' = <<>>
    /\ pc' = "searched"
    /\ vectorstore' = None
    /\ UNCHANGED <<server, embeddings, disk, last, question, text, embedding, hits, intent, k,
                   llm, reply, filtered_results, context, answer, citations, policy_context,
                   failed, template>>

\* variant: the exception of the search reaches query_system
SearchFail_Propagates ==
    /\ pc = "start"
    /\ embedding = "down"
    /\ pc' = "raised"
    /\ UNCHANGED <<server, store, question, text, embedding, hits, intent, k, llm, reply,
                   weighted_results, results, filtered_results, context, answer, citations,
                   policy_context, failed, template>>

\* the embedding backend or the index raises: logged, [] is returned
SearchFail ==
    /\ pc = "start"
    /\ embedding = "down"
    /\ weighted_results' = <<>>
    /\ results' = <<>>
    /\ pc' = "searched"
    /\ UNCHANGED <<server, store, question, text, embedding, hits, intent, k, llm, reply, filtered_results,
                   context, answer, citations, policy_context, failed, template>>

(***************************************************************************)
(* retrieve_relevant_data(question, intent, k).                            *)
(***************************************************************************)
\* any(x.lower() in [value.lower()] for x in wanted)
AnyLowerEq(wanted, value) ==
    \E i \in 1..Len(wanted) : Lower(wanted[i]) = Lower(value)

StateMatches(md, in) == AnyLowerEq(in.states, Get(md, "state", <<>>))

\* variant: a chunk without a state field passes the filter
Skipped_OnlyWhenStatePresent(md, in) ==
    Len(in.states) > 0 /\ "state" \in DOMAIN md /\ ~StateMatches(md, in)

\* the `continue` of the state filter
Skipped(md, in) == Len(in.states) > 0 /\ ~StateMatches(md, in)

BoostState(md, in, w) ==
    IF Len(in.states) > 0 /\ StateMatches(md, in)
    THEN RMul(w, Rat(13, 10)) ELSE w

BoostCrop(md, in, w) ==
    IF Len(in.crops) > 0 /\ AnyLowerEq(in.crops, Get(md, "crop", <<>>))
    THEN RMul(w, Rat(12, 10)) ELSE w

BoostYear(md, in, w) ==
    IF Len(in.years) > 0 /\ InList(Get(md, "year", 0), in.years)
    THEN RMul(w, Rat(14, 10)) ELSE w

BoostPolicy(md, in, w) ==
    IF in.type \in {"scheme_query", "policy_query"} /\ Get(md, "source", "") = GOV
    THEN RMul(w, Rat(15, 10)) ELSE w

RelevanceBoost(md, in) ==
    BoostPolicy(md, in, BoostYear(md, in, BoostCrop(md, in, BoostState(md, in, One))))

FilteredCandidate(r, in) ==
    LET relevance_boost == RelevanceBoost(r.doc.metadata, in)
    IN  [content |-> r.doc.page_content,
         metadata |-> r.doc.metadata,
         score |-> RDiv(r.score, relevance_boost),
         relevance_boost |-> relevance_boost,
         raw |-> r.raw,
         pos |-> r.pos]

\* the loop over results, in order
RECURSIVE FilterAndBoost(_, _)
FilterAndBoost(rs, in) ==
    IF Len(rs) = 0 THEN <<>>
    ELSE LET r == rs[Len(rs)]
             front == FilterAndBoost(SubSeq(rs, 1, Len(rs) - 1), in)
         IN  IF Skipped(r.doc.metadata, in) THEN front
             ELSE Append(front, FilteredCandidate(r, in))

Retrieve ==
    /\ pc = "searched"
    /\ LET sorted == SortByScore(FilterAndBoost(results, intent))
       IN  /\ filtered_results' = sorted
           /\ context' = Take(sorted, k)
    /\ pc' = "retrieved"
    /\ UNCHANGED <<server, store, question, text, embedding, hits, intent, k, llm, reply, weighted_results,
                   results, answer, citations, policy_context, failed, template>>
(***************************************************************************)
(* _extract_enhanced_citations(answer, context).                           *)
(***************************************************************************)
sNA == <<"N","/","A">>

\* stands for the string 'N/A' in the year field of a citation
NoYear == 0 - 1

\* set(matches)
MatchSet(matches) == {matches[i] : i \in 1..Len(matches)}

\* the orders in which `for match in set(matches)` can visit the set
Orders(S) ==
    {o \in [1..Cardinality(S) -> S] :
        \A i, j \in 1..Cardinality(S) : o[i] = o[j] => i = j}

\* context[idx] of a Python list, idx possibly negative
PyIndex(list, idx) ==
    IF idx >= 0 THEN list[idx + 1] ELSE list[Len(list) + idx + 1]

\* context[idx] raises IndexError
IndexError(list, idx) == idx >= Len(list) \/ idx < 0 - Len(list)

\* variant: the whitelisted sources of the search weights count as High too
Reliability_Whitelisted(md) ==
    IF Get(md, "source", "") \in {GOV} \cup Whitelist THEN "High" ELSE "Verified"

Reliability(md) == IF Get(md, "source", "") = GOV THEN "High" ELSE "Verified"

Citation(match, chunk) ==
    LET metadata == chunk.metadata
    IN  [id |-> match,
         source |-> Get(metadata, "source", "Unknown"),
         url |-> Get(metadata, "url", "N/A"),
         state |-> Get(metadata, "state", sNA),
         year |-> Get(metadata, "year", NoYear),
         category |-> Get(metadata, "category", sNA),
         scheme |-> Get(metadata, "scheme", "N/A"),
         reliability |-> Reliability(metadata)]

\* the guard `if idx < len(context)`
Resolves(match, ctx) == ParseInt(match) - 1 < Len(ctx)

RECURSIVE ExtractCitations(_, _)
ExtractCitations(order, ctx) ==
    IF Len(order) = 0 THEN <<>>
    ELSE LET match == order[Len(order)]
             front == ExtractCitations(SubSeq(order, 1, Len(order) - 1), ctx)
         IN  IF Resolves(match, ctx)
             THEN Append(front, Citation(match, PyIndex(ctx, ParseInt(match) - 1)))
             ELSE front

\* some visited match passes the guard and indexes outside the list
CitationsRaise(matches, ctx) ==
    \E m \in MatchSet(matches) :
        Resolves(m, ctx) /\ IndexError(ctx, ParseInt(m) - 1)

(***************************************************************************)
(* _extract_policy_context(context).                                       *)
(***************************************************************************)
sAgriPolicy == <<"a","g","r","i","c","u","l","t","u","r","a","l","_",
                 "p","o","l","i","c","y">>

PolicyRecord(metadata) ==
    [scheme |-> Get(metadata, "scheme", "Unknown Scheme"),
     budget |-> Get(metadata, "budget", "Not specified"),
     year |-> Get(metadata, "year", 2025),
     category |-> Get(metadata, "category", sAgriPolicy),
     focus_area |-> Get(metadata, "focus_area", "General Agriculture")]

RECURSIVE ExtractPolicyContext(_)
ExtractPolicyContext(ctx) ==
    IF Len(ctx) = 0 THEN <<>>
    ELSE LET chunk == ctx[Len(ctx)]
             front == ExtractPolicyContext(SubSeq(ctx, 1, Len(ctx) - 1))
         IN  IF Get(chunk.metadata, "source", "") = GOV
             THEN Append(front, PolicyRecord(chunk.metadata))
             ELSE front

(***************************************************************************)
(* _generate_fallback_response(question, context): the matches of its text *)
(***************************************************************************)
RECURSIVE FallbackParts(_, _)
FallbackParts(ctx, n) ==
    IF n = 0 THEN <<>>
    ELSE FallbackParts(ctx, n - 1) \o <<IntToStr(n)>> \o ctx[n].content

FallbackResponse(q, ctx) ==
    IF Len(ctx) = 0 THEN q
    ELSE FallbackParts(ctx, Min(3, Len(ctx)))

\* which of its two texts _generate_fallback_response returns (lines 294-307)
FallbackTemplate(ctx) == IF Len(ctx) = 0 THEN "insufficient" ELSE "sources"

(***************************************************************************)
(* generate_2025_enhanced_answer(question, context).                       *)
(***************************************************************************)
\* lines 246-258: citations and policy context of a response, or the
\* except branch when _extract_enhanced_citations raises
Respond(response, kind) ==
    IF CitationsRaise(response, context)
    THEN /\ answer' = question
         /\ citations' = <<>>
         /\ policy_context' = <<>>
         /\ failed' = TRUE
         /\ template' = "apology"
    ELSE /\ answer' = response
         /\ template' = kind
         /\ \E order \in Orders(MatchSet(response)) :
                citations' = ExtractCitations(order, context)
         /\ policy_context' = ExtractPolicyContext(context)
         /\ failed' = FALSE

\* self.llm is None
GenerateFallback ==
    /\ pc = "retrieved"
    /\ llm = "none"
    /\ Respond(FallbackResponse(question, context), FallbackTemplate(context))
    /\ pc' = "done"
    /\ UNCHANGED <<server, store, question, text, embedding, hits, intent, k, llm, reply, weighted_results,
                   results, filtered_results, context>>

\* the backend returns a text
GenerateWithLLM ==
    /\ pc = "retrieved"
    /\ llm \in {"local", "remote"}
    /\ reply.kind = "text"
    /\ Respond(reply.matches, "generated")
    /\ pc' = "done"
    /\ UNCHANGED <<server, store, question, text, embedding, hits, intent, k, llm, reply, weighted_results,
                   results, filtered_results, context>>

\* variant: the exception of the local model leaves the engine
GenerateLocalFail_Propagates ==
    /\ pc = "retrieved"
    /\ llm = "local"
    /\ reply.kind = "raise"
    /\ pc' = "raised"
    /\ UNCHANGED <<server, store, question, text, embedding, hits, intent, k, llm, reply,
                   weighted_results, results, filtered_results, context, answer, citations,
                   policy_context, failed, template>>

\* _generate_with_local_llm catches the exception of the local model
GenerateLocalFail ==
    /\ pc = "retrieved"
    /\ llm = "local"
    /\ reply.kind = "raise"
    /\ Respond(FallbackResponse(<<>>, <<>>), FallbackTemplate(<<>>))
    /\ pc' = "done"
    /\ UNCHANGED <<server, store, question, text, embedding, hits, intent, k, llm, reply, weighted_results,
                   results, filtered_results, context>>

\* self.llm.predict raises: the except branch of lines 260-268
GenerateRemoteFail ==
    /\ pc = "retrieved"
    /\ llm = "remote"
    /\ reply.kind = "raise"
    /\ answer' = question
    /\ citations' = <<>>
    /\ policy_context' = <<>>
    /\ failed' = TRUE
    /\ template' = "apology"
    /\ pc' = "done"
    /\ UNCHANGED <<server, store, question, text, embedding, hits, intent, k, llm, reply, weighted_results,
                   results, filtered_results, context>>
(***************************************************************************)
(* parse_2025_query(question).                                             *)
(* A pattern is its source text and, for re.search, its alternatives: each *)
(* alternative is the list of literals that `.*` separates.                *)
(***************************************************************************)
\* the intent dict before any rule ran (type None, every list empty)
NoIntent ==
    [type |-> "None", states |-> <<>>, crops |-> <<>>, years |-> <<>>,
     metrics |-> <<>>, schemes |-> <<>>, policies |-> <<>>]

scheme_patterns ==
    <<[name |-> "pm_dhan_dhaanya",
       patterns |-> <<[re |-> "pm.*dhan.*dhaanya", alts |-> {<<<<"p","m">>, <<"d","h","a","n">>, <<"d","h","a","a","n","y","a">>>>}],
                      [re |-> "dhan.*dhaanya", alts |-> {<<<<"d","h","a","n">>, <<"d","h","a","a","n","y","a">>>>}]>>],
      [name |-> "bharati",
       patterns |-> <<[re |-> "bharati", alts |-> {<<<<"b","h","a","r","a","t","i">>>>}],
                      [re |-> "bharti.*initiative", alts |-> {<<<<"b","h","a","r","t","i">>, <<"i","n","i","t","i","a","t","i","v","e">>>>}]>>],
      [name |-> "pkvy",
       patterns |-> <<[re |-> "pkvy", alts |-> {<<<<"p","k","v","y">>>>}],
                      [re |-> "paramparagat.*krishi", alts |-> {<<<<"p","a","r","a","m","p","a","r","a","g","a","t">>, <<"k","r","i","s","h","i">>>>}]>>],
      [name |-> "enam",
       patterns |-> <<[re |-> "e-nam", alts |-> {<<<<"e","-","n","a","m">>>>}],
                      [re |-> "enam", alts |-> {<<<<"e","n","a","m">>>>}],
                      [re |-> "national.*agriculture.*market", alts |-> {<<<<"n","a","t","i","o","n","a","l">>, <<"a","g","r","i","c","u","l","t","u","r","e">>, <<"m","a","r","k","e","t">>>>}]>>],
      [name |-> "soil_health",
       patterns |-> <<[re |-> "soil.*health.*card", alts |-> {<<<<"s","o","i","l">>, <<"h","e","a","l","t","h">>, <<"c","a","r","d">>>>}],
                      [re |-> "shc", alts |-> {<<<<"s","h","c">>>>}]>>],
      [name |-> "kisan_credit",
       patterns |-> <<[re |-> "kisan.*credit.*card", alts |-> {<<<<"k","i","s","a","n">>, <<"c","r","e","d","i","t">>, <<"c","a","r","d">>>>}],
                      [re |-> "kcc", alts |-> {<<<<"k","c","c">>>>}]>>]>>

policy_patterns ==
    <<[re |-> "budget.*202[45]", alts |-> {<<<<"b","u","d","g","e","t">>, <<"2","0","2","4">>>>, <<<<"b","u","d","g","e","t">>, <<"2","0","2","5">>>>}],
      [re |-> "allocation", alts |-> {<<<<"a","l","l","o","c","a","t","i","o","n">>>>}],
      [re |-> "government.*scheme", alts |-> {<<<<"g","o","v","e","r","n","m","e","n","t">>, <<"s","c","h","e","m","e">>>>}],
      [re |-> "ministry.*agriculture", alts |-> {<<<<"m","i","n","i","s","t","r","y">>, <<"a","g","r","i","c","u","l","t","u","r","e">>>>}],
      [re |-> "atmanirbhar", alts |-> {<<<<"a","t","m","a","n","i","r","b","h","a","r">>>>}],
      [re |-> "self.*relian", alts |-> {<<<<"s","e","l","f">>, <<"r","e","l","i","a","n">>>>}],
      [re |-> "expenditure", alts |-> {<<<<"e","x","p","e","n","d","i","t","u","r","e">>>>}],
      [re |-> "funding", alts |-> {<<<<"f","u","n","d","i","n","g">>>>}]>>

indian_states ==
    <<<<"p","u","n","j","a","b">>,
      <<"h","a","r","y","a","n","a">>,
      <<"u","t","t","a","r"," ","p","r","a","d","e","s","h">>,
      <<"b","i","h","a","r">>,
      <<"w","e","s","t"," ","b","e","n","g","a","l">>,
      <<"m","a","h","a","r","a","s","h","t","r","a">>,
      <<"g","u","j","a","r","a","t">>,
      <<"r","a","j","a","s","t","h","a","n">>,
      <<"m","a","d","h","y","a"," ","p","r","a","d","e","s","h">>,
      <<"k","a","r","n","a","t","a","k","a">>,
      <<"t","a","m","i","l"," ","n","a","d","u">>,
      <<"a","n","d","h","r","a"," ","p","r","a","d","e","s","h">>,
      <<"t","e","l","a","n","g","a","n","a">>,
      <<"k","e","r","a","l","a">>,
      <<"o","d","i","s","h","a">>,
      <<"j","h","a","r","k","h","a","n","d">>,
      <<"c","h","h","a","t","t","i","s","g","a","r","h">>>>

major_crops ==
    <<<<"r","i","c","e">>,
      <<"w","h","e","a","t">>,
      <<"c","o","t","t","o","n">>,
      <<"s","u","g","a","r","c","a","n","e">>,
      <<"p","u","l","s","e","s">>,
      <<"o","i","l","s","e","e","d","s">>,
      <<"m","a","i","z","e">>,
      <<"b","a","j","r","a">>,
      <<"j","o","w","a","r">>,
      <<"b","a","r","l","e","y">>,
      <<"g","r","a","m">>,
      <<"t","u","r">>,
      <<"m","o","o","n","g">>>>

comparison_keywords ==
    <<<<"c","o","m","p","a","r","e">>,
      <<"c","o","m","p","a","r","i","s","o","n">>>>

trend_keywords ==
    <<<<"t","r","e","n","d">>,
      <<"o","v","e","r"," ","t","i","m","e">>,
      <<"y","e","a","r","s">>,
      <<"d","e","c","a","d","e">>>>

correlation_keywords ==
    <<<<"c","o","r","r","e","l","a","t","e">>,
      <<"r","e","l","a","t","i","o","n","s","h","i","p">>,
      <<"i","m","p","a","c","t">>,
      <<"e","f","f","e","c","t">>>>

recommendation_keywords ==
    <<<<"r","e","c","o","m","m","e","n","d">>,
      <<"s","u","g","g","e","s","t">>,
      <<"a","d","v","i","c","e">>>>

\* the upper-case letter of every lower-case letter
ToUpper ==
    [c \in {LowerChars[i] : i \in 1..26} |->
        UpperChars[CHOOSE i \in 1..26 : LowerChars[i] = c]]

UpperChar(c) == IF c \in DOMAIN ToUpper THEN ToUpper[c] ELSE c

Letters == DOMAIN ToLower \cup DOMAIN ToUpper

\* str.title(): a letter after a non-letter is upper-cased, any other lower-cased
Title(s) ==
    [i \in 1..Len(s) |->
        IF i = 1 \/ s[i - 1] \notin Letters THEN UpperChar(s[i]) ELSE LowerChar(s[i])]

\* the literals of parts occur in s in order, the first one at position i;
\* `.*` between two literals is any text without a line break
RECURSIVE MatchAt(_, _, _)
MatchAt(parts, s, i) ==
    LET after == i + Len(Head(parts))
    IN  /\ after - 1 <= Len(s)
        /\ SubSeq(s, i, after - 1) = Head(parts)
        /\ \/ Len(parts) = 1
           \/ \E j \in after..Len(s) :
                 /\ \A g \in after..(j - 1) : s[g] # "\n"
                 /\ MatchAt(Tail(parts), s, j)

\* re.search(pattern, s)
ReSearch(pattern, s) ==
    \E parts \in pattern.alts : \E i \in 1..Len(s) : MatchAt(parts, s, i)

\* variant: the inner loop without its break, one append per matching pattern
Appends_NoBreak(patterns, s) ==
    Cardinality({i \in 1..Len(patterns) : ReSearch(patterns[i], s)})

\* the inner loop of lines 67-71: how often scheme_name is appended
Appends(patterns, s) ==
    IF \E i \in 1..Len(patterns) : ReSearch(patterns[i], s) THEN 1 ELSE 0

\* lines 66-71 for the first n schemes of scheme_patterns
RECURSIVE SchemeLoop(_, _, _)
SchemeLoop(in, s, n) ==
    IF n = 0 THEN in
    ELSE LET prev == SchemeLoop(in, s, n - 1)
             scheme == scheme_patterns[n]
             times == Appends(scheme.patterns, s)
         IN  IF times = 0 THEN prev
             ELSE [prev EXCEPT !.schemes = @ \o [i \in 1..times |-> scheme.name],
                               !.type = "scheme_query"]

\* lines 80-84 for the first n patterns of policy_patterns
RECURSIVE PolicyLoop(_, _, _)
PolicyLoop(in, s, n) ==
    IF n = 0 THEN in
    ELSE LET prev == PolicyLoop(in, s, n - 1)
             pattern == policy_patterns[n]
         IN  IF ReSearch(pattern, s)
             THEN [prev EXCEPT !.policies = Append(@, pattern.re),
                               !.type = IF @ = "None" THEN "policy_query" ELSE @]
             ELSE prev

\* any(word in question_lower for word in words)
AnyWord(words, s) == \E i \in 1..Len(words) : Contains(words[i], s)

\* variant: the trend keywords are tested before the comparison keywords
KeywordType_TrendFirst(s) ==
    IF AnyWord(trend_keywords, s) THEN "trend"
    ELSE IF AnyWord(comparison_keywords, s) THEN "comparison"
    ELSE IF AnyWord(correlation_keywords, s) THEN "correlation"
    ELSE IF AnyWord(recommendation_keywords, s) THEN "recommendation"
    ELSE "general"

\* lines 88-97: the if/elif chain over the keyword lists
KeywordType(s) ==
    IF AnyWord(comparison_keywords, s) THEN "comparison"
    ELSE IF AnyWord(trend_keywords, s) THEN "trend"
    ELSE IF AnyWord(correlation_keywords, s) THEN "correlation"
    ELSE IF AnyWord(recommendation_keywords, s) THEN "recommendation"
    ELSE "general"

\* lines 87-97
TypeFallback(in, s) ==
    IF in.type = "None" THEN [in EXCEPT !.type = KeywordType(s)] ELSE in

\* variant: the loop stops at the first name it finds
Named_FirstOnly(names, s) ==
    LET found == {i \in 1..Len(names) : Contains(names[i], s)}
    IN  IF found = {} THEN <<>>
        ELSE <<Title(names[CHOOSE i \in found : \A j \in found : i <= j])>>

\* lines 108-110 and 118-120: the names found in s, title-cased, in list order
RECURSIVE Named(_, _)
Named(names, s) ==
    IF Len(names) = 0 THEN <<>>
    ELSE LET front == Named(SubSeq(names, 1, Len(names) - 1), s)
             name == names[Len(names)]
         IN  IF Contains(name, s) THEN Append(front, Title(name)) ELSE front

IsDigit(c) == \E i \in 1..10 : DigitChars[i] = c

\* the text 20dd stands at position i of s
YearAt(s, i) ==
    /\ i >= 1
    /\ i + 3 <= Len(s)
    /\ s[i] = "2"
    /\ s[i + 1] = "0"
    /\ IsDigit(s[i + 2])
    /\ IsDigit(s[i + 3])

\* [int(year) for year in re.findall(r'20[0-9]{2}', s)], scanning from position i:
\* matches are taken left to right and do not overlap
RECURSIVE FindYears(_, _)
FindYears(s, i) ==
    IF i + 3 > Len(s) THEN <<>>
    ELSE IF YearAt(s, i)
         THEN <<ParseInt(SubSeq(s, i, i + 3))>> \o FindYears(s, i + 4)
         ELSE FindYears(s, i + 1)

\* the dict the function returns for a question
ParseQuery(q) ==
    LET question_lower == Lower(q)
        typed == TypeFallback(
                     PolicyLoop(SchemeLoop(NoIntent, question_lower, Len(scheme_patterns)),
                                question_lower, Len(policy_patterns)),
                     question_lower)
    IN  [typed EXCEPT !.states = Named(indian_states, question_lower),
                      !.crops = Named(major_crops, question_lower),
                      !.years = FindYears(q, 1)]

\* intent = rag_engine.parse_2025_query(request.question)
Parse ==
    /\ pc = "received"
    /\ intent' = ParseQuery(text)
    /\ pc' = "start"
    /\ UNCHANGED <<server, store, question, text, embedding, hits, k, llm, reply, weighted_results,
                   results, filtered_results, context, answer, citations,
                   policy_context, failed, template>>
(***************************************************************************)
(* EnhancedVectorStore: the index and its directory on disk.               *)
(* A text is known by its length and by whether strip() leaves nothing of  *)
(* it; part is 0 for a whole text and i for the i-th piece the splitter    *)
(* cut from it. A FAISS object is its index (dimension d, ntotal vectors)  *)
(* and its docstore, one Document per vector.                              *)
(***************************************************************************)
DefaultModel == "sentence-transformers/all-MiniLM-L6-v2"

EmbeddingModels == {DefaultModel, "sentence-transformers/all-mpnet-base-v2"}

\* the length of the vectors a model produces
Dimension(model) == IF model = DefaultModel THEN 384 ELSE 768

chunk_size == 800
chunk_overlap == 100

\* self.text_splitter.split_text(text) for a text without separators: the
\* lengths of its pieces
RECURSIVE SplitLengths(_)
SplitLengths(len) ==
    IF len <= chunk_size THEN <<len>>
    ELSE <<chunk_size>> \o SplitLengths(len - (chunk_size - chunk_overlap))

SplitText(whole) ==
    LET lens == SplitLengths(whole.len)
    IN  [i \in 1..Len(lens) |-> [whole EXCEPT !.part = i, !.len = lens[i]]]

Document(page_content, metadata) ==
    [page_content |-> page_content, metadata |-> metadata]

\* lines 55-69 for one chunk: the documents it contributes
Prepared(chunk) ==
    IF chunk.text.blank THEN <<>>
    ELSE IF chunk.text.len > 1000
         THEN LET splits == SplitText(chunk.text)
              IN  [i \in 1..Len(splits) |-> Document(splits[i], chunk.metadata)]
         ELSE <<Document(chunk.text, chunk.metadata)>>

\* lines 51-69: texts and metadatas after the loop
RECURSIVE PrepareTexts(_)
PrepareTexts(chunks) ==
    IF Len(chunks) = 0 THEN <<>>
    ELSE PrepareTexts(SubSeq(chunks, 1, Len(chunks) - 1)) \o Prepared(chunks[Len(chunks)])

\* FAISS.from_texts(texts, embedding, metadatas)
FromTexts(docs, model) ==
    [index |-> [d |-> Dimension(model), ntotal |-> Len(docs)],
     docstore |-> docs]

\* vectorstore.add_texts(texts, metadatas)
AddTexts(vs, docs) ==
    [index |-> [vs.index EXCEPT !.ntotal = @ + Len(docs)],
     docstore |-> vs.docstore \o docs]

\* lines 221-222 of add_documents: every chunk as it is
AllTexts(chunks) ==
    [i \in 1..Len(chunks) |-> Document(chunks[i].text, chunks[i].metadata)]

\* variant: the index in service is dropped before the texts are looked at
CreatedIndex_DropsFirst(current, chunks, model) ==
    IF Len(chunks) = 0 THEN current
    ELSE IF Len(PrepareTexts(chunks)) = 0 THEN None
    ELSE FromTexts(PrepareTexts(chunks), model)

\* create_optimized_index(chunks) when FAISS.from_texts succeeds: the new
\* value of self.vectorstore
CreatedIndex(current, chunks, model) ==
    IF Len(chunks) = 0 \/ Len(PrepareTexts(chunks)) = 0 THEN current
    ELSE FromTexts(PrepareTexts(chunks), model)

\* variant: add_documents builds the first index from its own text list
AddedToNone_FromItsTexts(chunks, model) ==
    FromTexts(AllTexts(chunks), model)

\* lines 226-229: add_documents without an index calls create_optimized_index
AddedToNone(chunks, model) == CreatedIndex(None, chunks, model)

\* lines 111-119: optimization_info.json
OptimizationInfo(vs, model) ==
    [index_type |-> "HNSW",
     embedding_model |-> model,
     total_vectors |-> vs.index.ntotal,
     dimension |-> vs.index.d]

\* get_stats()
GetStats(vs, model) ==
    IF vs = None THEN [status |-> "not_initialized"]
    ELSE [status |-> "initialized",
          total_vectors |-> vs.index.ntotal,
          vector_dimension |-> vs.index.d,
          embedding_model |-> model]

Absent == [exists |-> FALSE]

\* the directory after save_local and the json dump; original records the
\* statistics of the store that saved it and is read by no operation
Saved(vs, model) ==
    [exists |-> TRUE,
     faiss |-> vs.index,
     pkl |-> vs.docstore,
     info |-> OptimizationInfo(vs, model),
     original |-> GetStats(vs, model)]

\* variant: the loaded documents are embedded again with the store's model
FaissLoadLocal_Reembedded(dir, model) == FromTexts(dir.pkl, model)

\* FAISS.load_local(path, self.embeddings)
FaissLoadLocal(dir, model) == [index |-> dir.faiss, docstore |-> dir.pkl]

Called(op, chunks, result) ==
    last' = [op |-> op, chunks |-> chunks, result |-> result, before |-> vectorstore]

\* EnhancedVectorStore(embedding_model)
NewStore(model) ==
    /\ embeddings' = model
    /\ vectorstore' = None
    /\ Called("__init__", <<>>, "done")
    /\ UNCHANGED <<disk, request, server>>

CreateOptimizedIndex(chunks) ==
    /\ Len(PrepareTexts(chunks)) <= MaxVectors
    /\ vectorstore' = CreatedIndex(vectorstore, chunks, embeddings)
    /\ IF Len(chunks) = 0 \/ Len(PrepareTexts(chunks)) = 0
       THEN Called("create_optimized_index", chunks, "returned")
       ELSE Called("create_optimized_index", chunks, "done")
    /\ UNCHANGED <<embeddings, disk, request, server>>

\* FAISS.from_texts raises: logged and raised again (lines 93-95)
CreateIndexFail(chunks) ==
    /\ Len(PrepareTexts(chunks)) > 0
    /\ Called("create_optimized_index", chunks, "raised")
    /\ UNCHANGED <<embeddings, vectorstore, disk, request, server>>

AddDocuments(chunks) ==
    /\ IF Len(chunks) = 0
       THEN /\ Called("add_documents", chunks, "returned")
            /\ UNCHANGED vectorstore
       ELSE IF vectorstore # None
       THEN IF vectorstore.index.d # Dimension(embeddings)
            THEN \* index.add rejects vectors of another length
                 /\ Called("add_documents", chunks, "raised")
                 /\ UNCHANGED vectorstore
            ELSE /\ vectorstore.index.ntotal + Len(chunks) <= MaxVectors
                 /\ vectorstore' = AddTexts(vectorstore, AllTexts(chunks))
                 /\ Called("add_documents", chunks, "done")
       ELSE /\ Len(PrepareTexts(chunks)) <= MaxVectors
            /\ vectorstore' = AddedToNone(chunks, embeddings)
            /\ IF Len(PrepareTexts(chunks)) = 0
               THEN Called("add_documents", chunks, "returned")
               ELSE Called("add_documents", chunks, "done")
    /\ UNCHANGED <<embeddings, disk, request, server>>

\* the embedding backend raises inside add_texts or from_texts (lines 232-234)
AddDocumentsFail(chunks) ==
    /\ Len(chunks) > 0
    /\ vectorstore # None \/ Len(PrepareTexts(chunks)) > 0
    /\ Called("add_documents", chunks, "raised")
    /\ UNCHANGED <<embeddings, vectorstore, disk, request, server>>

SaveOptimizedIndex ==
    /\ IF vectorstore = None
       THEN /\ Called("save_optimized_index", <<>>, "returned")
            /\ UNCHANGED disk
       ELSE /\ disk' = Saved(vectorstore, embeddings)
            /\ Called("save_optimized_index", <<>>, "done")
    /\ UNCHANGED <<embeddings, vectorstore, request, server>>

LoadLocal ==
    /\ IF ~disk.exists
       THEN /\ Called("load_local", <<>>, "returned")
            /\ UNCHANGED vectorstore
       ELSE /\ vectorstore' = FaissLoadLocal(disk, embeddings)
            /\ Called("load_local", <<>>, "done")
    /\ UNCHANGED <<embeddings, disk, request, server>>

\* FAISS.load_local raises on the directory: logged and raised again (lines 152-154)
LoadLocalFail ==
    /\ disk.exists
    /\ Called("load_local", <<>>, "raised")
    /\ UNCHANGED <<embeddings, vectorstore, disk, request, server>>

(***************************************************************************)
(* add_documents beside a running search.  self.vectorstore.add_texts      *)
(* (line 224) works on the FAISS object the searches read: it adds the     *)
(* vectors to the index and then the documents to the docstore, under no   *)
(* lock.  create_optimized_index assigns a finished object (line 79).      *)
(***************************************************************************)
\* add_texts after index.add(vectors)
AddTextsVectors(vs, docs) ==
    [vs EXCEPT !.index.ntotal = @ + Len(docs)]

\* add_texts after docstore.add(documents)
AddTextsDocuments(vs, docs) ==
    [vs EXCEPT !.docstore = @ \o docs]

\* add_documents up to the middle of add_texts
AddDocumentsBegin(chunks) ==
    /\ pc = "idle"
    /\ Len(chunks) > 0
    /\ vectorstore # None
    /\ vectorstore.index.d = Dimension(embeddings)
    /\ vectorstore.index.ntotal + Len(chunks) <= MaxVectors
    /\ vectorstore' = AddTextsVectors(vectorstore, AllTexts(chunks))
    /\ Called("add_documents", chunks, "running")
    /\ pc' = "adding"
    /\ UNCHANGED <<embeddings, disk, app, http, observed>>
    /\ UNCHANGED <<question, text, embedding, hits, intent, k, llm, reply, weighted_results,
                   results, filtered_results, context, answer, citations, policy_context,
                   failed, template>>

\* the rest of add_texts, and the return of add_documents
AddDocumentsEnd ==
    /\ pc = "adding"
    /\ vectorstore' = AddTextsDocuments(vectorstore, AllTexts(last.chunks))
    /\ last' = [last EXCEPT !.result = "done"]
    /\ pc' = "idle"
    /\ UNCHANGED <<embeddings, disk, app, http, observed>>
    /\ UNCHANGED <<question, text, embedding, hits, intent, k, llm, reply, weighted_results,
                   results, filtered_results, context, answer, citations, policy_context,
                   failed, template>>

\* a build while no add is running
Rebuild(chunks) ==
    /\ pc = "idle"
    /\ Len(PrepareTexts(chunks)) > 0
    /\ CreateOptimizedIndex(chunks)
    /\ UNCHANGED pc

\* similarity_search_with_score of another thread (line 164): the FAISS
\* object as it is at that moment, and the call that is or was at work on it
ConcurrentSearch ==
    /\ vectorstore # None
    /\ observed' = [read |-> vectorstore, call |-> last]
    /\ UNCHANGED <<store, request, app, http>>

(***************************************************************************)
(* main.py: start-up, the query endpoint and the health endpoint.          *)
(***************************************************************************)
NotStarted == [vector_store |-> FALSE, rag_engine |-> FALSE]

Started == [vector_store |-> TRUE, rag_engine |-> TRUE]

\* startup_event (lines 67-99): the store is constructed and the directory
\* is loaded when it exists
StartUp ==
    /\ pc = "boot"
    /\ embeddings' = DefaultModel
    /\ IF disk.exists
       THEN /\ vectorstore' = FaissLoadLocal(disk, DefaultModel)
            /\ last' = [op |-> "load_local", chunks |-> <<>>, result |-> "done",
                        before |-> None]
       ELSE /\ vectorstore' = None
            /\ last' = [op |-> "__init__", chunks |-> <<>>, result |-> "done",
                        before |-> None]
    /\ app' = Started
    /\ pc' = "idle"
    /\ UNCHANGED <<disk, http, observed>>
    /\ UNCHANGED <<question, text, embedding, hits, intent, k, llm, reply, weighted_results,
                   results, filtered_results, context, answer, citations, policy_context,
                   failed, template>>

\* FAISS.load_local raises on the directory: load_local raises again, and
\* so does startup_event (lines 97-99) before rag_engine is assigned
StartUpFail ==
    /\ pc = "boot"
    /\ disk.exists
    /\ embeddings' = DefaultModel
    /\ vectorstore' = None
    /\ last' = [op |-> "load_local", chunks |-> <<>>, result |-> "raised", before |-> None]
    /\ app' = [vector_store |-> TRUE, rag_engine |-> FALSE]
    /\ pc' = "exited"
    /\ UNCHANGED <<disk, http, observed>>
    /\ UNCHANGED <<question, text, embedding, hits, intent, k, llm, reply, weighted_results,
                   results, filtered_results, context, answer, citations, policy_context,
                   failed, template>>

HTTPException(status_code) == [endpoint |-> "/query", status_code |-> status_code]

\* sum(chunk.get('score', 0.5) for chunk in context)
RECURSIVE SumOfScores(_)
SumOfScores(ctx) ==
    IF Len(ctx) = 0 THEN Rat(0, 1)
    ELSE RAdd(SumOfScores(SubSeq(ctx, 1, Len(ctx) - 1)), ctx[Len(ctx)].score)

\* line 185
avg_score(ctx) ==
    IF Len(ctx) # 0 THEN RDiv(SumOfScores(ctx), Rat(Len(ctx), 1)) ELSE Rat(1, 2)

\* variant: the mean distance itself is reported, capped at 1
confidence_score_NotInverted(ctx) ==
    IF RLess(One, avg_score(ctx)) THEN One ELSE avg_score(ctx)

\* line 186: max(0.0, min(1.0, 1.0 - avg_score)); no score is negative, so
\* min keeps 1.0 - avg_score and max replaces it when avg_score exceeds 1
confidence_score(ctx) ==
    IF RLess(One, avg_score(ctx)) THEN Rat(0, 1) ELSE RSub(One, avg_score(ctx))

\* lines 190-197
QueryResponse ==
    [endpoint |-> "/query",
     status_code |-> 200,
     answer |-> answer,
     citations |-> citations,
     policy_context |-> policy_context,
     confidence_score |-> confidence_score(context),
     data_vintage |-> "2025-edition"]

\* query_system, lines 153-157: the globals are looked at before the stages
QuerySystem ==
    /\ pc = "idle"
    /\ IF ~app.rag_engine \/ ~app.vector_store
       THEN /\ http' = HTTPException(503)
            /\ pc' = "responded"
       ELSE /\ http' = None
            /\ pc' = "received"
    /\ UNCHANGED <<store, app, observed>>
    /\ UNCHANGED <<question, text, embedding, hits, intent, k, llm, reply, weighted_results,
                   results, filtered_results, context, answer, citations, policy_context,
                   failed, template>>

\* query_system, lines 182-201: the response after the stages, or the
\* except branch when one of them raised
QueryReturn ==
    /\ pc \in {"done", "raised"}
    /\ http' = IF pc = "raised" THEN HTTPException(500) ELSE QueryResponse
    /\ pc' = "responded"
    /\ UNCHANGED <<store, app, observed>>
    /\ UNCHANGED <<question, text, embedding, hits, intent, k, llm, reply, weighted_results,
                   results, filtered_results, context, answer, citations, policy_context,
                   failed, template>>

\* health_check (lines 203-232); hasattr(vector_store, 'vectorstore') holds
\* of every EnhancedVectorStore, __init__ assigns the attribute
HealthResponse(globals, vs) ==
    LET vectorstore_loaded == globals.vector_store
        total_docs == IF vectorstore_loaded /\ vs # None THEN vs.index.ntotal ELSE 0
    IN  [endpoint |-> "/health",
         status_code |-> 200,
         status |-> IF vectorstore_loaded THEN "healthy" ELSE "degraded",
         vectorstore_loaded |-> vectorstore_loaded,
         total_documents |-> total_docs]

HealthCheck ==
    /\ pc = "idle"
    /\ http' = HealthResponse(app, vectorstore)
    /\ pc' = "responded"
    /\ UNCHANGED <<store, app, observed>>
    /\ UNCHANGED <<question, text, embedding, hits, intent, k, llm, reply, weighted_results,
                   results, filtered_results, context, answer, citations, policy_context,
                   failed, template>>

(***************************************************************************)
(* Inputs: documents, questions, replies.                                  *)
(***************************************************************************)
sPunjab == <<"P","u","n","j","a","b">>
sPUNJAB == <<"P","U","N","J","A","B">>
sKerala == <<"K","e","r","a","l","a">>
sRice == <<"R","i","c","e">>
srice == <<"r","i","c","e">>
sWheat == <<"W","h","e","a","t">>
sCropStats == <<"C","r","o","p","_","S","t","a","t","s">>
sMarketData == <<"m","a","r","k","e","t","_","d","a","t","a">>
sAgriProd == <<"a","g","r","i","c","u","l","t","u","r","e","_",
               "p","r","o","d","u","c","t","i","o","n">>
sClimate == <<"c","l","i","m","a","t","e","_","d","a","t","a">>

NoKeys == [x \in {} |-> x]

\* no boost at search time; state and crop of the Punjab rice queries
DocPunjabRice ==
    [page_content |-> <<>>,
     metadata |-> [state |-> sPUNJAB, crop |-> srice, year |-> 2020,
                   source |-> "enam_platform", category |-> sMarketData,
                   url |-> "https://enam.gov.in/web/"]]

\* recent, other crop, same state
DocPunjabWheat ==
    [page_content |-> <<>>,
     metadata |-> [state |-> sPunjab, crop |-> sWheat, year |-> 2024,
                   source |-> "enam_platform", category |-> sMarketData]]

\* a policy chunk as process_policies builds it, for another state
DocPolicy ==
    [page_content |-> <<>>,
     metadata |-> [scheme |-> "PKVY", year |-> 2025, source |-> GOV,
                   category |-> sAgriPolicy, budget |-> "24000 crore",
                   focus_area |-> "organic farming", state |-> sKerala,
                   url |-> "https://pib.gov.in/FactsheetDetails.aspx?Id=149244"]]

\* a whitelisted dataset chunk without state, crop or year
DocDataset ==
    [page_content |-> <<>>,
     metadata |-> [source |-> "data.gov.in", category |-> sClimate]]

\* a chunk whose text itself quotes a marker
DocQuoting ==
    [page_content |-> <<<<"2">>>>,
     metadata |-> [source |-> GOV, year |-> 2020]]

Catalogue == {DocPunjabRice, DocPunjabWheat, DocDataset}

\* what the index holds for a question: documents of Docs, nearest first
HitLists(Docs, maxLen, Raws) ==
    UNION {{h \in [1..n -> [doc : Docs, raw : Raws]] :
               \A i \in 1..(n - 1) : h[i].raw <= h[i + 1].raw} : n \in 0..maxLen}

\* every combination of the metadata keys the weights read
Optional(key, values) == {NoKeys} \cup {key :> v : v \in values}

YearlessMetadata ==
    {so @@ ca @@ sc @@ st @@ cr :
        so \in {NoKeys} \cup {"source" :> v : v \in {GOV, "data.gov.in"}},
        ca \in {"category" :> v : v \in {sCropStats, sAgriProd, sClimate}},
        sc \in Optional("scheme", {"", "PKVY"}),
        st \in Optional("state", {sPUNJAB, sKerala}),
        cr \in Optional("crop", {srice, sWheat})}

AllMetadata ==
    {y @@ md : y \in Optional("year", {2020, 2024}), md \in YearlessMetadata}

Doc(md) == [page_content |-> <<>>, metadata |-> md]

\* the questions of the retrieval states: "Rice production in Punjab in 2024"
\* with or without its crop, its state and its year, and with a scheme named
QuestionOf(scheme, crop, state, year) ==
    (IF scheme THEN <<"P","K","V","Y",":"," ">> ELSE <<>>)
    \o (IF crop THEN <<"R","i","c","e"," ">> ELSE <<>>)
    \o <<"p","r","o","d","u","c","t","i","o","n">>
    \o (IF state THEN <<" ","i","n"," ","P","u","n","j","a","b">> ELSE <<>>)
    \o (IF year THEN <<" ","i","n"," ","2","0","2","4">> ELSE <<>>)

IntentQuestions ==
    {QuestionOf(scheme, crop, state, year) : scheme, crop, state, year \in BOOLEAN}

\* what parse_2025_query returns for each of them
IntentOf == [q \in IntentQuestions |-> ParseQuery(q)]

Intents == {IntentOf[q] : q \in IntentQuestions}

EntityQuestions ==
    {q \in IntentQuestions : IntentOf[q].type = "general" /\ IntentOf[q].years = <<>>}

EntityIntents == {IntentOf[q] : q \in EntityQuestions}

GeneralQuestion == QuestionOf(FALSE, FALSE, FALSE, FALSE)

GeneralIntent == IntentOf[GeneralQuestion]

\* the request was parsed: intent is the dict returned for its text
Parsed(questions) ==
    /\ text \in questions
    /\ intent = IntentOf[text]

SchemeFragments ==
    {<<>>,
     <<"P","K","V","Y"," ">>,
     <<"P","M"," ","D","h","a","n","-","D","h","a","a","n","y","a"," ","a","n","d"," ","P","K","V","Y"," ","f","u","n","d","i","n","g"," ","a","l","l","o","c","a","t","i","o","n"," ","f","o","r"," ">>,
     <<"P","M"," ","D","h","a","n","\n","D","h","a","a","n","y","a"," ">>,
     <<"e","-","N","A","M"," ","a","n","d"," ","K","C","C"," ">>,
     <<"B","u","d","g","e","t"," ","2","0","2","5"," ","a","l","l","o","c","a","t","i","o","n"," ","f","o","r"," ">>,
     <<"B","h","a","r","a","t","i"," ","b","u","d","g","e","t"," ","f","o","r"," ">>,
     <<"G","o","v","e","r","n","m","e","n","t"," ","f","u","n","d","i","n","g"," ","o","f"," ","t","h","e"," ","S","o","i","l"," ","H","e","a","l","t","h"," ","C","a","r","d"," ","s","c","h","e","m","e"," ","f","o","r"," ">>}

KeywordFragments ==
    {<<>>,
     <<"C","o","m","p","a","r","e"," ">>,
     <<"C","o","m","p","a","r","e"," ","t","h","e"," ","t","r","e","n","d"," ","o","f"," ">>,
     <<"I","m","p","a","c","t"," ","a","n","d"," ","t","r","e","n","d"," ","o","f"," ">>,
     <<"S","u","g","g","e","s","t"," ","a"," ","c","o","m","p","a","r","i","s","o","n"," ","o","f"," ">>,
     <<"R","e","c","o","m","m","e","n","d"," ","t","h","e"," ","e","f","f","e","c","t"," ","o","f"," ">>,
     <<"A","d","v","i","c","e"," ","o","n"," ">>}

EntityFragments ==
    {<<"p","r","o","d","u","c","t","i","o","n">>,
     <<"R","i","c","e"," ","p","r","o","d","u","c","t","i","o","n"," ","i","n"," ","P","u","n","j","a","b">>,
     <<"a","g","r","i","c","u","l","t","u","r","e"," ","p","r","i","c","e","s"," ","i","n"," ","W","e","s","t"," ","B","e","n","g","a","l">>,
     <<"w","h","e","a","t"," ","a","n","d"," ","W","H","E","A","T"," ","i","n"," ","U","t","t","a","r"," ","P","r","a","d","e","s","h"," ","a","n","d"," ","M","a","d","h","y","a"," ","P","r","a","d","e","s","h">>,
     <<"c","r","o","p"," ","p","r","o","g","r","a","m","m","e"," ","i","n"," ","K","e","r","a","l","a">>}

YearFragments ==
    {<<>>,
     <<" ","i","n"," ","2","0","2","4">>,
     <<" ","i","n"," ","2","0","2","3"," ","a","n","d"," ","2","0","2","4"," ","a","g","a","i","n","s","t"," ","2","0","2","4">>,
     <<" ","s","i","n","c","e"," ","2","0","2","0","2","1","2">>,
     <<" ","o","v","e","r"," ","t","h","e"," ","y","e","a","r","s"," ","1","9","9","9"," ","t","o"," ","2","1","0","0">>}

\* questions that combine schemes, policy words, keywords, names and years
Questions ==
    {a \o b \o c \o d : a \in SchemeFragments, b \in KeywordFragments,
                         c \in EntityFragments, d \in YearFragments}

Text(matches) == [kind |-> "text", matches |-> matches]
Raise == [kind |-> "raise", matches |-> <<>>]

\* matches of the texts a backend may produce
Markers == {<<"0">>, <<"1">>, <<"0","1">>, <<"2">>, <<"9">>}

Replies ==
    {Raise, Text(<<>>)}
    \cup {Text(<<m>>) : m \in Markers}
    \cup {Text(<<m1, m2>>) : m1, m2 \in Markers}

(***************************************************************************)
(* The state after a request arrived.                                      *)
(***************************************************************************)
\* retrieval over every index content, answered by the fallback template
InitRetrieval ==
    /\ hits \in HitLists(Catalogue, MaxDocs, 0..MaxRaw)
    /\ Parsed(EntityQuestions)
    /\ k \in 1..MaxK
    /\ embedding = "ok"
    /\ llm = "none"
    /\ reply = Raise
    /\ question = <<>>

\* one document with every metadata combination, under every intent
InitWeights ==
    /\ \E md \in AllMetadata, raw \in {0, MaxRaw} :
          hits = <<[doc |-> Doc(md), raw |-> raw]>>
    /\ Parsed(IntentQuestions)
    /\ k = 1
    /\ embedding = "ok"
    /\ llm = "none"
    /\ reply = Raise
    /\ question = <<>>

\* two documents that differ in the year only, at the same distance
InitRecency ==
    /\ \E md \in YearlessMetadata, raw \in 0..MaxRaw, y1 \in {2020, 2024} :
         LET y2 == IF y1 = 2020 THEN 2024 ELSE 2020
         IN  hits = <<[doc |-> Doc(("year" :> y1) @@ md), raw |-> raw],
                      [doc |-> Doc(("year" :> y2) @@ md), raw |-> raw]>>
    /\ Parsed({GeneralQuestion})
    /\ k = 1
    /\ embedding = "ok"
    /\ llm = "none"
    /\ reply = Raise
    /\ question = <<>>

\* every backend and every reply over short contexts
InitGeneration ==
    /\ hits \in HitLists({DocPunjabRice, DocPolicy, DocQuoting}, 2, {0})
    /\ Parsed({GeneralQuestion})
    /\ k = 2
    /\ embedding = "ok"
    /\ llm \in {"none", "local", "remote"}
    /\ reply \in Replies
    /\ question \in {<<>>, <<<<"0">>>>, <<<<"1">>>>}

\* the embedding backend or the index is out of order
InitOutage ==
    /\ hits \in HitLists({DocPolicy}, 1, {0})
    /\ Parsed({GeneralQuestion, QuestionOf(FALSE, FALSE, TRUE, FALSE)})
    /\ k = 1
    /\ embedding = "down"
    /\ llm \in {"none", "local", "remote"}
    /\ reply \in {Raise, Text(<<<<"1">>>>)}
    /\ question \in {<<>>, <<<<"1">>>>}

\* an index with more documents than one search fetches (k*2*3 for k = 1)
InitLargeIndex ==
    /\ hits = [i \in 1..7 |-> IF i < 7 THEN [doc |-> DocDataset, raw |-> 0]
                                      ELSE [doc |-> DocPunjabRice, raw |-> MaxRaw]]
    /\ Parsed(EntityQuestions)
    /\ k = 1
    /\ embedding = "ok"
    /\ llm = "none"
    /\ reply = Raise
    /\ question = <<>>

\* a request whose question was not parsed yet
InitRequest ==
    /\ text \in IntentQuestions
    /\ intent = NoIntent
    /\ hits \in HitLists({DocPunjabRice, DocPolicy}, 1, {MaxRaw})
    /\ k = 1
    /\ embedding = "ok"
    /\ llm = "none"
    /\ reply = Raise
    /\ question = <<>>

\* start-up loaded the index that ranks hits from its directory; without a
\* directory the store has no index and answers every search with []
Serving ==
    LET index == FromTexts([i \in 1..Len(hits) |-> hits[i].doc], DefaultModel)
    IN  /\ app = Started
        /\ embeddings = DefaultModel
        /\ vectorstore = IF Len(hits) = 0 THEN None ELSE index
        /\ disk = IF Len(hits) = 0 THEN Absent ELSE Saved(index, DefaultModel)
        /\ last = [op |-> IF Len(hits) = 0 THEN "__init__" ELSE "load_local",
                   chunks |-> <<>>, result |-> "done", before |-> None]

\* what each request leaves untouched until its first step
Fresh ==
    /\ weighted_results = <<>>
    /\ results = <<>>
    /\ filtered_results = <<>>
    /\ context = <<>>
    /\ answer = <<>>
    /\ citations = <<>>
    /\ policy_context = <<>>
    /\ failed = FALSE
    /\ template = "none"
    /\ http = None
    /\ observed = None

Init ==
    /\ \/ /\ pc = "start"
          /\ \/ InitRetrieval
             \/ InitWeights
             \/ InitRecency
             \/ InitGeneration
             \/ InitOutage
             \/ InitLargeIndex
       \/ /\ pc = "received"
          /\ InitRequest
    /\ Serving
    /\ Fresh

Next ==
    \/ Parse
    \/ Search
    \/ SearchFail
    \/ Retrieve
    \/ GenerateFallback
    \/ GenerateWithLLM
    \/ GenerateLocalFail
    \/ GenerateRemoteFail

Spec == Init /\ [][Next]_vars

\* parse_2025_query alone, over every question of Questions
InitParse ==
    /\ pc = "received"
    /\ text \in Questions
    /\ intent = NoIntent
    /\ hits = <<>>
    /\ k = 1
    /\ embedding = "ok"
    /\ llm = "none"
    /\ reply = Raise
    /\ question = <<>>
    /\ Serving
    /\ Fresh

SpecParse == InitParse /\ [][Parse]_vars

(***************************************************************************)
(* The vector store alone: stores are constructed, built, extended, saved  *)
(* and loaded in any order over one directory.                             *)
(***************************************************************************)
Meta == [source |-> "data.gov.in"]

Chunk(id, len, blank) ==
    [text |-> [id |-> id, part |-> 0, len |-> len, blank |-> blank], metadata |-> Meta]

EmptyChunk == Chunk("empty", 0, TRUE)
BlankChunk == Chunk("blank", 3, TRUE)
ShortChunk == Chunk("short", 1000, FALSE)
LongChunk == Chunk("long", 1200, FALSE)

ChunkLists ==
    {<<>>, <<EmptyChunk>>, <<BlankChunk>>, <<EmptyChunk, BlankChunk>>, <<ShortChunk>>,
     <<LongChunk>>, <<BlankChunk, ShortChunk>>, <<ShortChunk, LongChunk>>}

InitStore ==
    /\ app = NotStarted
    /\ embeddings \in EmbeddingModels
    /\ vectorstore = None
    /\ disk = Absent
    /\ last = [op |-> "__init__", chunks |-> <<>>, result |-> "done", before |-> None]
    /\ pc = "idle"
    /\ text = <<>>
    /\ intent = NoIntent
    /\ hits = <<>>
    /\ k = 1
    /\ embedding = "ok"
    /\ llm = "none"
    /\ reply = Raise
    /\ question = <<>>
    /\ Fresh

NextStore ==
    \/ \E model \in EmbeddingModels : NewStore(model)
    \/ \E chunks \in ChunkLists : CreateOptimizedIndex(chunks)
    \/ \E chunks \in ChunkLists : CreateIndexFail(chunks)
    \/ \E chunks \in ChunkLists : AddDocuments(chunks)
    \/ \E chunks \in ChunkLists : AddDocumentsFail(chunks)
    \/ SaveOptimizedIndex
    \/ LoadLocal
    \/ LoadLocalFail

SpecStore == InitStore /\ [][NextStore]_vars

(***************************************************************************)
(* The service of main.py: start-up, then one request, a query or a health *)
(* check.  The engine is built with use_local_llm=True (line 93), so its   *)
(* backend is the local model or, when that failed to load, none.          *)
(***************************************************************************)
\* raw distances of the requests whose confidence is looked at
Distances == {0, 1, 3}

PunjabQuestion == QuestionOf(FALSE, FALSE, TRUE, FALSE)

\* every reply of the local model over short contexts
InitAppGeneration ==
    /\ hits \in HitLists({DocPunjabRice, DocPolicy, DocQuoting}, 2, {0})
    /\ text \in {<<>>, PunjabQuestion}
    /\ k = 2
    /\ embedding = "ok"
    /\ \/ llm = "none" /\ reply = Raise
       \/ llm = "local" /\ reply \in Replies
    /\ question \in {<<>>, <<<<"0">>>>, <<<<"1">>>>}

\* contexts at several distances, answered by the fallback template
InitAppScores ==
    /\ hits \in HitLists({DocPunjabRice, DocPolicy}, 2, Distances)
    /\ text = GeneralQuestion
    /\ k \in 1..2
    /\ embedding = "ok"
    /\ llm = "none"
    /\ reply = Raise
    /\ question = <<>>

\* the embedding backend or the index is out of order
InitAppOutage ==
    /\ hits \in HitLists({DocPolicy}, 1, Distances)
    /\ text \in {<<>>, GeneralQuestion}
    /\ k = 1
    /\ embedding = "down"
    /\ \/ llm = "none" /\ reply = Raise
       \/ llm = "local" /\ reply \in {Raise, Text(<<<<"1">>>>)}
    /\ question \in {<<>>, <<<<"1">>>>}

\* before start-up: the directory holds the index that ranks hits, or, for
\* an empty index, does not exist
InitApp ==
    /\ pc = "boot"
    /\ app = NotStarted
    /\ \/ InitAppGeneration
       \/ InitAppScores
       \/ InitAppOutage
    /\ intent = NoIntent
    /\ embeddings = DefaultModel
    /\ vectorstore = None
    /\ disk = IF Len(hits) = 0 THEN Absent
              ELSE Saved(FromTexts([i \in 1..Len(hits) |-> hits[i].doc], DefaultModel),
                         DefaultModel)
    /\ last = [op |-> "__init__", chunks |-> <<>>, result |-> "done", before |-> None]
    /\ Fresh

NextApp ==
    \/ StartUp
    \/ StartUpFail
    \/ QuerySystem
    \/ Parse
    \/ Search
    \/ SearchFail
    \/ Retrieve
    \/ GenerateFallback
    \/ GenerateWithLLM
    \/ GenerateLocalFail
    \/ QueryReturn
    \/ HealthCheck

SpecApp == InitApp /\ [][NextApp]_vars

(***************************************************************************)
(* One store shared by a thread that builds and extends the index and a    *)
(* thread that searches it.                                                *)
(***************************************************************************)
InitConcurrent == InitStore

NextConcurrent ==
    \/ \E chunks \in ChunkLists : Rebuild(chunks)
    \/ \E chunks \in ChunkLists : AddDocumentsBegin(chunks)
    \/ AddDocumentsEnd
    \/ ConcurrentSearch

SpecConcurrent == InitConcurrent /\ [][NextConcurrent]_vars
(***************************************************************************)
(* Properties.                                                             *)
(***************************************************************************)
Retrieved == pc \in {"retrieved", "done"}

\* the backend was not called or returned a text
BackendAnswered == llm = "none" \/ reply.kind = "text" \/ llm = "local"

Indices(s) == 1..Len(s)

\* C1: every citation carries a marker number N with 1 <= N <= len(context)
\* and the metadata fields of context[N-1]; a marker outside that range
\* (N = 0 or N > len(context)) produces no citation and no error.
C1_CitationsInRange ==
    pc = "done" =>
        /\ \A i \in Indices(citations) :
              LET N == ParseInt(citations[i].id)
              IN  /\ 1 <= N
                  /\ N <= Len(context)
                  /\ citations[i] = Citation(citations[i].id, context[N])
        /\ BackendAnswered => ~failed

\* C2: exactly one citation per distinct in-range integer N that appears
\* in a marker of the answer, whatever the digit form of the marker.
C2_OneCitationPerNumber ==
    (pc = "done" /\ ~failed) =>
        \A N \in 1..Len(context) :
            Cardinality({i \in Indices(citations) : ParseInt(citations[i].id) = N})
              = IF \E j \in Indices(answer) : ParseInt(answer[j]) = N THEN 1 ELSE 0

\* C3: policy_context holds one record per context chunk whose source is
\* government_policy, in context order, whatever the answer text and
\* whether or not generation succeeded.
C3_PolicyContextFromContext ==
    pc = "done" =>
        LET gov == SelectSeq(context, LAMBDA c : Get(c.metadata, "source", "") = GOV)
        IN  policy_context = [i \in Indices(gov) |-> PolicyRecord(gov[i].metadata)]

\* C4: with intent.states non-empty every returned chunk has a state field
\* equal, case-insensitively, to one of intent.states.
C4_StateHardFilter ==
    (Retrieved /\ Len(intent.states) > 0) =>
        \A i \in Indices(context) :
            /\ "state" \in DOMAIN context[i].metadata
            /\ \E j \in Indices(intent.states) :
                  Lower(intent.states[j]) = Lower(context[i].metadata.state)

\* a returned chunk matched in another letter case, and a chunk was discarded
C4_Witness ==
    /\ Retrieved
    /\ Len(intent.states) > 0
    /\ Len(context) > 0
    /\ context[1].metadata.state = sPUNJAB
    /\ \E i \in Indices(results) : "state" \notin DOMAIN results[i].doc.metadata

\* C5: with intent.states non-empty and at least k state-matching chunks in
\* the pool fetched from the index, retrieval returns exactly k results.
C5_FilterBeforeTruncation ==
    LET pool == IndexSearch((k * 2) * 3)
        matching == {i \in Indices(pool) :
                        \E j \in Indices(intent.states) :
                            Lower(intent.states[j])
                              = Lower(Get(pool[i].doc.metadata, "state", <<>>))}
    IN  (/\ Retrieved
         /\ Len(weighted_results) = Len(pool)
         /\ Len(intent.states) > 0
         /\ Cardinality(matching) >= k) => Len(context) = k

\* C6: for every candidate of the search and re-rank stages the weight is
\* >= 1.0 and the adjusted score is <= the raw score of the index.
C6_WeightMonotone ==
    /\ \A i \in Indices(weighted_results) :
          /\ RLeq(One, weighted_results[i].weight)
          /\ RLeq(weighted_results[i].score, Rat(weighted_results[i].raw, 1))
    /\ \A i \in Indices(filtered_results) :
          /\ RLeq(One, filtered_results[i].relevance_boost)
          /\ RLeq(filtered_results[i].score, Rat(filtered_results[i].raw, 1))

\* a candidate boosted in both stages, strictly below its raw score
C6_Witness ==
    \E i \in Indices(filtered_results) :
        /\ RLess(One, filtered_results[i].relevance_boost)
        /\ RLess(One, SearchWeight(filtered_results[i].metadata))
        /\ RLess(filtered_results[i].score, Rat(filtered_results[i].raw, 1))

RECURSIVE Product(_)
Product(ns) ==
    IF Len(ns) = 0 THEN 1 ELSE ns[Len(ns)] * Product(SubSeq(ns, 1, Len(ns) - 1))

\* the multiplier of a table condition
Factor(condition, n, d) == IF condition THEN Rat(n, d) ELSE One

\* the product of the multipliers of the nine table conditions
TableWeight(md, in) ==
    LET category == Lower(Get(md, "category", <<>>))
        stateHit == \E j \in Indices(in.states) :
                        Lower(in.states[j]) = Lower(Get(md, "state", <<>>))
        cropHit == \E j \in Indices(in.crops) :
                        Lower(in.crops[j]) = Lower(Get(md, "crop", <<>>))
        yearHit == "year" \in DOMAIN md /\ \E j \in Indices(in.years) : in.years[j] = md.year
        isGov == "source" \in DOMAIN md /\ md.source = GOV
        f1 == Factor("year" \in DOMAIN md /\ md.year >= 2024, 6, 5)
        f2 == Factor(isGov, 23, 20)
        f3 == Factor(Contains(sAgriculture, category) \/ Contains(sCrop, category), 11, 10)
        f4 == Factor("scheme" \in DOMAIN md /\ md.scheme # "", 11, 10)
        f5 == Factor("source" \in DOMAIN md /\ md.source \in Whitelist, 21, 20)
        f6 == Factor(stateHit, 13, 10)
        f7 == Factor(cropHit, 6, 5)
        f8 == Factor(yearHit, 7, 5)
        f9 == Factor(in.type \in {"scheme_query", "policy_query"} /\ isGov, 3, 2)
        fs == <<f1, f2, f3, f4, f5, f6, f7, f8, f9>>
    IN  Rat(Product([i \in 1..9 |-> fs[i].n]), Product([i \in 1..9 |-> fs[i].d]))

\* C7: the weight by which the raw score is divided is the product of the
\* multipliers of exactly the table conditions the candidate satisfies.
C7_WeightIsTableProduct ==
    \A i \in Indices(filtered_results) :
        LET c == filtered_results[i]
            total == TableWeight(c.metadata, intent)
        IN  /\ RMul(SearchWeight(c.metadata), c.relevance_boost) = total
            /\ c.score = RDiv(Rat(c.raw, 1), total)

\* a candidate at raw distance > 0 that satisfies conditions of both stages
\* but not all of them
C7_Witness ==
    \E i \in Indices(filtered_results) :
        LET c == filtered_results[i]
        IN  /\ c.raw > 0
            /\ RLess(One, c.relevance_boost)
            /\ RLess(One, SearchWeight(c.metadata))
            /\ Get(c.metadata, "source", "") \in Whitelist
            /\ Get(c.metadata, "year", 0) = 2020

\* C8: the returned list is sorted ascending by adjusted score and has at
\* most k elements.
C8_SortedTopK ==
    Retrieved =>
        /\ Len(context) <= k
        /\ \A i, j \in Indices(context) :
              i < j => RLeq(context[i].score, context[j].score)

\* k results out of more candidates, ranked against the order of the index
C8_Witness ==
    /\ Retrieved
    /\ Len(context) = k
    /\ Len(filtered_results) > k
    /\ k > 1
    /\ context[1].pos > context[2].pos
    /\ RLess(context[1].score, context[2].score)

\* C9: two candidates with equal final adjusted scores appear in the order
\* in which the index returned them.
C9_TiesInIndexOrder ==
    Retrieved =>
        \A i, j \in Indices(context) :
            (i < j /\ context[i].score = context[j].score)
                => context[i].pos < context[j].pos

SameExceptYear(a, b) ==
    /\ DOMAIN a = DOMAIN b
    /\ \A key \in DOMAIN a \ {"year"} : a[key] = b[key]

\* pairs (i, j) of weighted candidates: same raw score, same metadata but
\* for year 2024 of i and year 2020 of j
RecencyPairs ==
    {p \in Indices(weighted_results) \X Indices(weighted_results) :
        LET a == weighted_results[p[1]]
            b == weighted_results[p[2]]
        IN  /\ a.raw = b.raw
            /\ "year" \in DOMAIN a.doc.metadata
            /\ SameExceptYear(a.doc.metadata, b.doc.metadata)
            /\ a.doc.metadata.year = 2024
            /\ b.doc.metadata.year = 2020}

\* C10 as stated: the 2024 chunk's adjusted score is strictly lower than
\* the 2020 chunk's for every raw score, a raw distance of 0 included.
C10_RecentStrictlyLower ==
    Len(intent.years) = 0 =>
        \A p \in RecencyPairs :
            RLess(weighted_results[p[1]].score, weighted_results[p[2]].score)

\* C10 amended: strictly lower for every raw score > 0; at raw distance 0
\* both adjusted scores are 0.
C10_RecentLowerAboveZero ==
    Len(intent.years) = 0 =>
        \A p \in RecencyPairs :
            LET a == weighted_results[p[1]]
                b == weighted_results[p[2]]
            IN  IF a.raw > 0 THEN RLess(a.score, b.score)
                ELSE a.score = Rat(0, 1) /\ b.score = Rat(0, 1)

\* the 2024 chunk came second from the index and is ranked first
C10_Witness ==
    /\ Len(intent.years) = 0
    /\ \E p \in RecencyPairs :
          /\ weighted_results[p[1]].raw > 0
          /\ weighted_results[p[1]].pos = 2
          /\ p[1] = 1

\* C11: every record retrieval returns reports a weight that explains its
\* score: score * relevance_boost is the raw distance the index returned
\* for that chunk.
C11_ScoreTimesBoostIsRaw ==
    Retrieved =>
        \A i \in 1..Len(context) :
            RMul(context[i].score, context[i].relevance_boost) = Rat(context[i].raw, 1)

\* parse_2025_query returned
ParseReturned == pc # "received"

\* how often x occurs in list
Count(x, list) == Cardinality({i \in 1..Len(list) : list[i] = x})

\* the schemes of scheme_patterns one of whose patterns matches s
MatchingSchemes(s) ==
    {n \in 1..Len(scheme_patterns) :
        \E i \in 1..Len(scheme_patterns[n].patterns) :
            ReSearch(scheme_patterns[n].patterns[i], s)}

\* the patterns of policy_patterns that match s
MatchingPolicies(s) ==
    {n \in 1..Len(policy_patterns) : ReSearch(policy_patterns[n], s)}

\* C12: when a scheme pattern matches the question the type is scheme_query
\* and schemes holds every scheme with a matching pattern exactly once and
\* no other; every matching policy pattern is in policies whatever the type,
\* and the type is policy_query exactly when a policy pattern matched and
\* no scheme pattern did.
C12_SchemeAndPolicyTyping ==
    ParseReturned =>
        LET s == Lower(text)
            ms == MatchingSchemes(s)
            mp == MatchingPolicies(s)
        IN  /\ ms # {} => intent.type = "scheme_query"
            /\ \A n \in 1..Len(scheme_patterns) :
                   Count(scheme_patterns[n].name, intent.schemes)
                       = IF n \in ms THEN 1 ELSE 0
            /\ Len(intent.schemes) = Cardinality(ms)
            /\ \A n \in 1..Len(policy_patterns) :
                   Count(policy_patterns[n].re, intent.policies)
                       = IF n \in mp THEN 1 ELSE 0
            /\ Len(intent.policies) = Cardinality(mp)
            /\ intent.type = "policy_query" <=> (ms = {} /\ mp # {})

\* both patterns of one scheme match, a second scheme and policy patterns too
C12_Witness ==
    /\ ParseReturned
    /\ \A i \in 1..2 : ReSearch(scheme_patterns[1].patterns[i], Lower(text))
    /\ Cardinality(MatchingSchemes(Lower(text))) = 2
    /\ Len(intent.policies) = 2
    /\ intent.type = "scheme_query"

SevenTypes ==
    {"scheme_query", "policy_query", "comparison", "trend", "correlation",
     "recommendation", "general"}

\* the keyword lists in the order the claim gives
KeywordOrder ==
    <<[type |-> "comparison", words |-> comparison_keywords],
      [type |-> "trend", words |-> trend_keywords],
      [type |-> "correlation", words |-> correlation_keywords],
      [type |-> "recommendation", words |-> recommendation_keywords]>>

\* C13: the returned type is one of the seven types, never unset; when no
\* scheme and no policy pattern matches it is the type of the first keyword
\* list, in the order comparison, trend, correlation, recommendation, one of
\* whose words occurs in the lower-cased question, and general when none does.
C13_TypeAlwaysSet ==
    ParseReturned =>
        LET s == Lower(text)
            occurs == {n \in 1..Len(KeywordOrder) : AnyWord(KeywordOrder[n].words, s)}
        IN  /\ intent.type \in SevenTypes
            /\ (MatchingSchemes(s) = {} /\ MatchingPolicies(s) = {}) =>
                   IF occurs = {} THEN intent.type = "general"
                   ELSE \E n \in occurs :
                           /\ \A m \in occurs : n <= m
                           /\ intent.type = KeywordOrder[n].type

\* a comparison word and a trend word both occur: the type is comparison
C13_Witness ==
    /\ ParseReturned
    /\ MatchingSchemes(Lower(text)) = {}
    /\ MatchingPolicies(Lower(text)) = {}
    /\ AnyWord(comparison_keywords, Lower(text))
    /\ AnyWord(trend_keywords, Lower(text))
    /\ intent.type = "comparison"

\* C14: years holds every 20dd sequence of the question (one that does not
\* overlap an earlier one) as an integer in 2000..2099, and a year that
\* occurs several times appears once.
C14_YearsCollapsed ==
    ParseReturned =>
        /\ \A i \in 1..Len(text) :
               (YearAt(text, i) /\ \A j \in 1..3 : ~YearAt(text, i - j))
                   => InList(ParseInt(SubSeq(text, i, i + 3)), intent.years)
        /\ \A i \in 1..Len(intent.years) : intent.years[i] \in 2000..2099
        /\ \A i, j \in 1..Len(intent.years) : i # j => intent.years[i] # intent.years[j]

ExampleQuestion ==
    <<"R","i","c","e"," ","p","r","o","d","u","c","t","i","o","n"," ","i","n"," ",
      "P","u","n","j","a","b"," ","i","n"," ","2","0","2","4">>

\* C15: states and crops hold the title-cased form of exactly the gazetteer
\* names that are substrings of the lower-cased question, each once, for
\* every type; "Rice production in Punjab in 2024" gives Punjab, Rice, 2024
\* and the type general.
C15_EntitiesBySubstring ==
    ParseReturned =>
        LET s == Lower(text)
        IN  /\ \A n \in 1..Len(indian_states) :
                   Count(Title(indian_states[n]), intent.states)
                       = IF Contains(indian_states[n], s) THEN 1 ELSE 0
            /\ Len(intent.states)
                   = Cardinality({n \in 1..Len(indian_states) : Contains(indian_states[n], s)})
            /\ \A n \in 1..Len(major_crops) :
                   Count(Title(major_crops[n]), intent.crops)
                       = IF Contains(major_crops[n], s) THEN 1 ELSE 0
            /\ Len(intent.crops)
                   = Cardinality({n \in 1..Len(major_crops) : Contains(major_crops[n], s)})
            /\ text = ExampleQuestion =>
                   /\ intent.states = <<sPunjab>>
                   /\ intent.crops = <<sRice>>
                   /\ intent.years = <<2024>>
                   /\ intent.type = "general"

\* a scheme query whose words "agriculture" and "prices" hold two crop names
C15_Witness ==
    /\ ParseReturned
    /\ intent.type = "scheme_query"
    /\ Len(intent.states) = 1
    /\ Len(intent.crops) = 2
    /\ Contains(sAgriculture, Lower(text))

\* C16: create_optimized_index called with no chunk, or with chunks whose
\* texts are all empty or blank, reports an error to its caller and produces
\* no index.
C16_EmptyCorpusRaises ==
    (last.op = "create_optimized_index" /\ Len(PrepareTexts(last.chunks)) = 0) =>
        /\ last.result = "raised"
        /\ vectorstore = last.before

\* C17: when the dimension recorded in the directory differs from the
\* dimension of the store's embedding model, load_local raises and does not
\* install the index of the directory.
C17_MismatchRejected ==
    (/\ last.op = "load_local"
     /\ disk.exists
     /\ disk.info.dimension # Dimension(embeddings)) =>
        /\ last.result = "raised"
        /\ vectorstore = last.before

C19_AddKeepsOrBuilds ==
    (last.op = "add_documents" /\ last.result # "raised") =>
        IF Len(last.chunks) = 0 THEN vectorstore = last.before
        ELSE IF last.before # None
        THEN LET old == last.before.index.ntotal
             IN  /\ vectorstore.index.d = last.before.index.d
                 /\ vectorstore.index.ntotal = old + Len(last.chunks)
                 /\ Len(vectorstore.docstore) = old + Len(last.chunks)
                 /\ \A i \in 1..old : vectorstore.docstore[i] = last.before.docstore[i]
                 /\ \A i \in 1..Len(last.chunks) :
                        /\ vectorstore.docstore[old + i].page_content = last.chunks[i].text
                        /\ vectorstore.docstore[old + i].metadata = last.chunks[i].metadata
        ELSE vectorstore = CreatedIndex(None, last.chunks, embeddings)

\* add_documents built the first index from a blank and a usable chunk
C19_Witness ==
    /\ last.op = "add_documents"
    /\ last.result = "done"
    /\ last.before = None
    /\ Len(last.chunks) = 2
    /\ vectorstore.index.ntotal = 1

\* the chunks of a list whose text is not blank
Usable(chunks) == {i \in 1..Len(chunks) : ~chunks[i].text.blank}

\* C20: after create_optimized_index built an index, the index holds as many
\* vectors as the list has chunks with text, and every such chunk is the
\* source of exactly one stored document, whatever its length.
C20_OneVectorPerChunk ==
    (last.op = "create_optimized_index" /\ last.result = "done") =>
        /\ vectorstore.index.ntotal = Cardinality(Usable(last.chunks))
        /\ \A i \in Usable(last.chunks) :
               Cardinality({j \in 1..Len(vectorstore.docstore) :
                   vectorstore.docstore[j].page_content.id = last.chunks[i].text.id}) = 1

\* the index a call on the store leaves when it completes
Completed(call) ==
    IF call.op = "add_documents" THEN AddTexts(call.before, AllTexts(call.chunks))
    ELSE CreatedIndex(call.before, call.chunks, embeddings)

\* C21: a search that runs beside add_documents or create_optimized_index
\* reads the complete index from before the call or the complete index after
\* it, one document for every vector, and never the vectors of a call
\* without their documents.
C21_NoPartialIndex ==
    observed # None =>
        /\ observed.read \in {observed.call.before, Completed(observed.call)}
        /\ observed.read.index.ntotal = Len(observed.read.docstore)

QueryAnswered ==
    /\ pc = "responded"
    /\ http.endpoint = "/query"
    /\ http.status_code = 200

\* C23: the confidence_score of a query response lies in [0, 1]; over a
\* context of n > 0 chunks it is 0 when the mean of their adjusted scores
\* exceeds 1 and otherwise 1 minus that mean (n times the confidence plus
\* the sum of the scores is n); over an empty context it is 1/2.
C23_ConfidenceClamped ==
    QueryAnswered =>
        LET c == http.confidence_score
            n == Len(context)
            sum == SumOfScores(context)
        IN  /\ RLeq(Rat(0, 1), c)
            /\ RLeq(c, One)
            /\ IF n = 0 THEN c = Rat(1, 2)
               ELSE IF RLess(Rat(n, 1), sum) THEN c = Rat(0, 1)
               ELSE RAdd(RMul(c, Rat(n, 1)), sum) = Rat(n, 1)

\* two chunks at different distances, one of them weighted, give a
\* confidence strictly between 1/2 and 1
C23_Witness ==
    /\ QueryAnswered
    /\ Len(context) = 2
    /\ context[1].score # context[2].score
    /\ context[2].score # Rat(context[2].raw, 1)
    /\ RLess(Rat(1, 2), http.confidence_score)
    /\ RLess(http.confidence_score, One)

\* C24: a query whose retrieval returned an empty context is answered with
\* status 200 by the insufficient-information sentence, with no citation
\* and a confidence_score of 1/2, whatever backend the engine has and
\* whatever it replies.
C24_EmptyContextPlainAnswer ==
    (pc = "responded" /\ http.endpoint = "/query" /\ Len(context) = 0) =>
        /\ http.status_code = 200
        /\ template = "insufficient"
        /\ http.citations = <<>>
        /\ http.confidence_score = Rat(1, 2)

\* the chunks the fallback template quotes: context[:3]
TemplateChunks == 1..Min(3, Len(context))

\* C25: when the engine has no backend, or its backend raises when called,
\* and the context is not empty, the answer is the fallback template over
\* the first three chunks, and the citations are those of its markers: one
\* for each quoted chunk, built from that chunk.
C25_FallbackTemplateOnFailure ==
    (pc = "done" /\ (llm = "none" \/ reply.kind = "raise") /\ Len(context) > 0) =>
        /\ template = "sources"
        /\ answer = FallbackParts(context, Min(3, Len(context)))
        /\ {citations[i].id : i \in Indices(citations)} = {IntToStr(n) : n \in TemplateChunks}
        /\ \A i \in Indices(citations) :
               citations[i] = Citation(citations[i].id, context[ParseInt(citations[i].id)])

\* C26: after start-up every query is answered with a status below 500,
\* whether the embedding backend works or not, whether the engine has a
\* backend and whether it replies or raises, with and without an index,
\* for the empty question as for any other.
C26_NoServerError ==
    (pc = "responded" /\ http.endpoint = "/query" /\ app = Started) =>
        http.status_code < 500

\* the empty question against a failing embedding backend and a local
\* model that raises
C26_Witness ==
    /\ pc = "responded"
    /\ http.endpoint = "/query"
    /\ app = Started
    /\ text = <<>>
    /\ embedding = "down"
    /\ llm = "local"
    /\ reply.kind = "raise"
    /\ http.status_code = 200

IntentKeys == {"type", "states", "crops", "years", "metrics", "schemes", "policies"}

\* C27: no stage raises to query_system; once parse_2025_query has returned,
\* the intent has its seven keys and one of the seven types; once
\* retrieve_relevant_data has returned, the context is a list, and it is
\* the empty list when the embedding backend or the index search failed and
\* when the store has no index.
C27_StagesNeverRaise ==
    /\ pc # "raised"
    /\ pc \in {"start", "searched", "retrieved", "done"} =>
           /\ DOMAIN intent = IntentKeys
           /\ intent.type \in SevenTypes
    /\ pc \in {"retrieved", "done"} =>
           /\ DOMAIN context = 1..Len(context)
           /\ (embedding = "down" \/ vectorstore = None) => context = <<>>

\* retrieval returned [] for the empty question, over a loaded index whose
\* search failed
C27_Witness ==
    /\ pc = "retrieved"
    /\ text = <<>>
    /\ intent.type = "general"
    /\ embedding = "down"
    /\ vectorstore # None
    /\ context = <<>>

\* C28: every citation of a result has the reliability High or Verified,
\* and High exactly when the metadata of the chunk context[int(id) - 1] it
\* was built from has the source government_policy.
C28_ReliabilityBySource ==
    pc = "done" =>
        \A i \in Indices(citations) :
            LET chunk == PyIndex(context, ParseInt(citations[i].id) - 1)
            IN  /\ citations[i].reliability \in {"High", "Verified"}
                /\ citations[i].reliability = "High"
                       <=> ("source" \in DOMAIN chunk.metadata
                                /\ chunk.metadata["source"] = "government_policy")

\* one result cites a policy chunk and a chunk of another source
C28_Witness ==
    /\ pc = "done"
    /\ \E i, j \in Indices(citations) :
           /\ citations[i].reliability = "High"
           /\ citations[j].reliability = "Verified"
           /\ citations[j].source # "Unknown"

AllBlank(chunks) == \A i \in Indices(chunks) : chunks[i].text.blank

\* C29: self.vectorstore is what it was before the call after
\* create_optimized_index with no chunk or with blank texts only, after
\* create_optimized_index that raised, after load_local on a directory that
\* does not exist and after save_optimized_index without an index, whatever
\* was built, added, loaded and saved before.
C29_IncompleteOpsKeepIndex ==
    /\ (last.op = "create_optimized_index" /\ (AllBlank(last.chunks) \/ last.result = "raised"))
           => vectorstore = last.before
    /\ (last.op = "load_local" /\ ~disk.exists) => vectorstore = last.before
    /\ (last.op = "save_optimized_index" /\ last.before = None) => vectorstore = None

\* a build from blank texts returned over an index of two vectors that had
\* been saved
C29_Witness ==
    /\ last.op = "create_optimized_index"
    /\ Len(last.chunks) > 0
    /\ AllBlank(last.chunks)
    /\ disk.exists
    /\ vectorstore # None
    /\ vectorstore.index.ntotal = 2

\* C30: the health endpoint reports vectorstore_loaded = true and the status
\* healthy only when the vector store holds an index, and after a start-up
\* that found no index directory it reports vectorstore_loaded = false and
\* the status degraded.
C30_HealthReportsIndex ==
    (pc = "responded" /\ http.endpoint = "/health") =>
        /\ (http.vectorstore_loaded /\ http.status = "healthy") => vectorstore # None
        /\ ~disk.exists => (~http.vectorstore_loaded /\ http.status = "degraded")

====
